---- MODULE Spec2Model ----
(***************************************************************************)
(* A model of spectre's LAMDA reader (src/src/lamda.rs), of its radio beam  *)
(* arithmetic (src/src/beam.rs) and of skip_line (src/src/io.rs).          *)
(*                                                                         *)
(* The reader is modelled as the state machine LAMDAData::from_reader      *)
(* runs over the iterator `lines` of a BufReader: every call of            *)
(* lines.next() / lines.nth(1) is one step.  The input file is not fixed   *)
(* in advance: each call of next() draws the item the reader yields (a     *)
(* line, an io::Error, or end of input), so every file of at most MaxLines *)
(* lines over the line alphabet LineSet is explored.                       *)
(*                                                                         *)
(* A line is the sequence of its whitespace-separated tokens; the token    *)
(* "!" stands for a word that begins with the character '!'.  Lines carry  *)
(* no leading or trailing blanks.                                          *)
(***************************************************************************)
EXTENDS Integers, Sequences, FiniteSets, TLC

VARIABLES
    pc,         \* position in from_reader
    consumed,   \* number of lines taken from the reader
    frame,      \* the locals of from_reader, under the names of the source
    result,     \* how the call ended: Ok, a LAMDAError, or a panic
    data,       \* the LAMDAData returned with Ok
    ioSeen,     \* history: the reader yielded an io::Error to the parser
    eofIn,      \* history: the step at which the input ran out
    badRecord,  \* history: the section in which a malformed record was met
    lastIdTok,  \* history: first token of the last partner-id line read
    declared,   \* history: the counts the count lines declared (-1: not read)
    trail,      \* history: where in the input the sections were met
    beams,      \* the Beam values built so far (beam.rs)
    lastCall,   \* the last Beam operation with its arguments and outcome
    reader,     \* the BufRead that skip_line reads: its lines and its position
    buf,        \* the String skip_line reads into (io.rs)
    skipped     \* history: the calls of skip_line and how the last one ended

lamdaVars == <<pc, consumed, frame, result, data, ioSeen, eofIn, badRecord,
               lastIdTok, declared, trail>>
beamVars == <<beams, lastCall>>
ioVars == <<reader, buf, skipped>>
vars == <<lamdaVars, beamVars, ioVars>>

----------------------------------------------------------------------------
(* Bounds *)

\* The longest input file, in lines.
MaxLines == 34

----------------------------------------------------------------------------
(* Tokens and their conversions *)

UIntTokens == {"0", "1", "2", "3", "4", "5", "6", "7", "8"}
FloatOnlyTokens == {"0.0", "1.0", "3.0", "3.845", "6.2e-8", "115.27", "5.53",
                    "10.0", "20.0", "1.0e-10", "2.0e-10"}

\* str::parse::<usize>: Ok exactly on a string of decimal digits.
ParseUIntOk(tok) == tok \in UIntTokens

ParseUInt(tok) ==
    CASE tok = "0" -> 0 [] tok = "1" -> 1 [] tok = "2" -> 2 [] tok = "3" -> 3
      [] tok = "4" -> 4 [] tok = "5" -> 5 [] tok = "6" -> 6 [] tok = "7" -> 7
      [] tok = "8" -> 8

\* str::parse::<f64>: Ok on decimal and exponent notation, integers included.
ParseFloatOk(tok) == tok \in UIntTokens \cup FloatOnlyTokens

\* The f64 an accepted token denotes, written in its shortest decimal form
\* ("2" and "2.0" denote the same f64).
ParseFloat(tok) ==
    CASE tok = "0" -> "0.0" [] tok = "1" -> "1.0" [] tok = "2" -> "2.0"
      [] tok = "3" -> "3.0" [] tok = "4" -> "4.0" [] tok = "5" -> "5.0"
      [] tok = "6" -> "6.0" [] tok = "7" -> "7.0" [] tok = "8" -> "8.0"
      [] OTHER -> tok

\* String::starts_with('!')
StartsWithBang(line) == Len(line) > 0 /\ line[1] = "!"

\* <String>.parse::<usize>() on a whole line (no trim): the line must be
\* exactly one unsigned integer.
ParseLineUIntOk(line) == Len(line) = 1 /\ ParseUIntOk(line[1])

----------------------------------------------------------------------------
(* The input: what `lines` can yield *)

LineSet ==
    { <<"!", "LABEL">>,
      <<>>,
      <<"0">>, <<"1">>, <<"2">>,
      <<"x">>,
      <<"1", "0.0", "1.0", "0">>,
      <<"2", "3.845", "3.0", "1">>,
      <<"2", "3.845", "3.0">>,
      <<"1", "2", "1", "6.2e-8", "115.27", "5.53">>,
      <<"3", "o-H2">>, <<"4", "e">>, <<"5", "H">>, <<"6", "He">>,
      <<"7", "H+">>, <<"8", "X">>,
      <<"10.0", "20.0">>,
      <<"1", "2", "1", "1.0e-10", "2.0e-10">>,
      <<"1", "2", "1", "1.0e-10">> }

EofItem == [kind |-> "eof", line |-> <<>>]
IoItem == [kind |-> "io", line |-> <<>>]
Items == {[kind |-> "line", line |-> l] : l \in LineSet} \cup {IoItem}

\* What the c-th call of next() on the underlying reader may yield: any
\* item while the file is shorter than MaxLines, or end of input.
Read(c) == IF c < MaxLines THEN Items \cup {EofItem} ELSE {EofItem}

\* Iterator::next on `lines`: item, the number of lines used, and whether an
\* io::Error was dropped on the way.
NextOutcomes(c) ==
    { [item |-> a, used |-> IF a.kind = "eof" THEN 0 ELSE 1, dropIo |-> FALSE]
        : a \in Read(c) }

\* An item that is dropped unread: only its kind can matter, so one line
\* stands for all of them.
ReadUnseen(c) ==
    IF c < MaxLines
      THEN {[kind |-> "line", line |-> <<"!", "LABEL">>], IoItem, EofItem}
      ELSE {EofItem}

\* Iterator::nth(1) on `lines`: advance past one item whatever it is (a
\* line or an io::Error), then next().  None as soon as the reader runs out.
NthOutcomes(c) ==
    UNION { IF a.kind = "eof"
              THEN {[item |-> EofItem, used |-> 0, dropIo |-> FALSE]}
              ELSE { [item |-> b,
                      used |-> IF b.kind = "eof" THEN 1 ELSE 2,
                      dropIo |-> a.kind = "io"] : b \in Read(c + 1) }
            : a \in ReadUnseen(c) }

----------------------------------------------------------------------------
(* Results *)

NoResult == [kind |-> "none", msg |-> ""]
OkResult == [kind |-> "Ok", msg |-> ""]
\* errors.rs: the variants of LAMDAError
Io == [kind |-> "Io", msg |-> ""]
ParseError(m) == [kind |-> "ParseError", msg |-> m]
ParseInt == [kind |-> "ParseInt", msg |-> ""]
ParseFloatErr == [kind |-> "ParseFloat", msg |-> ""]
\* Option::expect / Result::expect failing: the thread panics, from_reader
\* returns nothing.
Panic(m) == [kind |-> "Panic", msg |-> m]

----------------------------------------------------------------------------
(* LevelData and RadSet: parallel vectors, allocated at the declared size *)

\* A vector allocated one element short
ZeroVecShort(n, zero) == [i \in 1..(n - 1) |-> zero]

\* vec![0; n] / vec![0.0; n]
ZeroVec(n, zero) == [i \in 1..n |-> zero]

NewLevelData(n) ==
    [ids |-> ZeroVec(n, 0), energies |-> ZeroVec(n, "0.0"),
     weights |-> ZeroVec(n, "0.0"), qnums |-> ZeroVec(n, 0)]

NewRadSet(n) ==
    [ids |-> ZeroVec(n, 0), ups |-> ZeroVec(n, 0), lows |-> ZeroVec(n, 0),
     einst_as |-> ZeroVec(n, "0.0"), freqs |-> ZeroVec(n, "0.0"),
     energies |-> ZeroVec(n, "0.0")]

\* The closure of parse_energy_levels: `id energy weight qnum`, each field
\* taken with expect(): it panics on a missing or malformed field.
LevelFieldsOk(line) ==
    /\ Len(line) >= 4
    /\ ParseUIntOk(line[1])
    /\ ParseFloatOk(line[2])
    /\ ParseFloatOk(line[3])
    /\ ParseUIntOk(line[4])

LevelPanicMsg(line) ==
    CASE Len(line) < 1 \/ ~ParseUIntOk(line[1]) -> "Failed to parse level ID"
      [] Len(line) < 2 \/ ~ParseFloatOk(line[2]) -> "Failed to parse level energy"
      [] Len(line) < 3 \/ ~ParseFloatOk(line[3]) ->
            "Failed to parse level statistical weight"
      [] OTHER -> "Failed to parse level J"

StoreLevel(ld, i, line) ==
    [ids |-> [ld.ids EXCEPT ![i] = ParseUInt(line[1])],
     energies |-> [ld.energies EXCEPT ![i] = ParseFloat(line[2])],
     weights |-> [ld.weights EXCEPT ![i] = ParseFloat(line[3])],
     qnums |-> [ld.qnums EXCEPT ![i] = ParseUInt(line[4])]]

\* The closure of parse_rad_transitions: `id upper lower einst_a freq energy`.
RadFieldsOk(line) ==
    /\ Len(line) >= 6
    /\ ParseUIntOk(line[1])
    /\ ParseUIntOk(line[2])
    /\ ParseUIntOk(line[3])
    /\ ParseFloatOk(line[4])
    /\ ParseFloatOk(line[5])
    /\ ParseFloatOk(line[6])

RadPanicMsg(line) ==
    CASE Len(line) < 1 \/ ~ParseUIntOk(line[1]) -> "Failed to parse level ID"
      [] Len(line) < 2 \/ ~ParseUIntOk(line[2]) -> "Failed to parse level energy"
      [] Len(line) < 3 \/ ~ParseUIntOk(line[3]) ->
            "Failed to parse level statistical weight"
      [] Len(line) < 6 \/ ~ParseFloatOk(line[4]) \/ ~ParseFloatOk(line[5]) ->
            "Failed to parse level J"
      [] OTHER -> "Failed to parse energy"

StoreRad(rs, i, line) ==
    [ids |-> [rs.ids EXCEPT ![i] = ParseUInt(line[1])],
     ups |-> [rs.ups EXCEPT ![i] = ParseUInt(line[2])],
     lows |-> [rs.lows EXCEPT ![i] = ParseUInt(line[3])],
     einst_as |-> [rs.einst_as EXCEPT ![i] = ParseFloat(line[4])],
     freqs |-> [rs.freqs EXCEPT ![i] = ParseFloat(line[5])],
     energies |-> [rs.energies EXCEPT ![i] = ParseFloat(line[6])]]

----------------------------------------------------------------------------
(* Collisional partners *)

\* The match on the partner id (lamda.rs:141-154 and 372-385).
PartnerIdOk(tok) == tok \in {"1", "2", "3", "4", "5", "6", "7"}

\* The table with the two spin isomers of H2 exchanged
PartnerNameSwapped(tok) ==
    CASE tok = "1" -> "H2"
      [] tok = "2" -> "o-H2"
      [] tok = "3" -> "p-H2"
      [] tok = "4" -> "e"
      [] tok = "5" -> "H"
      [] tok = "6" -> "He"
      [] tok = "7" -> "H+"

PartnerName(tok) ==
    CASE tok = "1" -> "H2"
      [] tok = "2" -> "p-H2"
      [] tok = "3" -> "o-H2"
      [] tok = "4" -> "e"
      [] tok = "5" -> "H"
      [] tok = "6" -> "He"
      [] tok = "7" -> "H+"

\* .split_whitespace().map(|x| x.parse::<f64>()...).collect::<Result<Vec<_>,_>>()
TempsOk(line) == \A i \in 1..Len(line) : ParseFloatOk(line[i])
ParseTemps(line) == [i \in 1..Len(line) |-> ParseFloat(line[i])]

\* HashMap::insert
MapInsert(m, k, v) == [x \in (DOMAIN m) \cup {k} |-> IF x = k THEN v ELSE m[x]]

\* parse_colli_transition is called by from_reader (lamda.rs:184) and is not
\* defined in the source; it follows the format description: one record
\* `id upper lower rate_1 .. rate_N`, the rates zipped positionally with
\* the temperatures of the partner.
ColliRecordError(line, temps) ==
    CASE Len(line) < 3 + Len(temps) -> ParseError("Missing field")
      [] \E i \in 1..3 : ~ParseUIntOk(line[i]) -> ParseInt
      [] \E i \in 1..Len(temps) : ~ParseFloatOk(line[3 + i]) -> ParseFloatErr
      [] OTHER -> OkResult

\* Every token after the third taken as a rate, however many temperatures
RatesOfRest(line, temps) == [i \in 1..(Len(line) - 3) |-> ParseFloat(line[3 + i])]

RatesOf(line, temps) == [i \in 1..Len(temps) |-> ParseFloat(line[3 + i])]

parse_colli_transition(line, name, temps) ==
    [partner_id |-> name,
     id |-> ParseUInt(line[1]),
     up |-> ParseUInt(line[2]),
     low |-> ParseUInt(line[3]),
     temps |-> temps,
     rates |-> RatesOf(line, temps)]

----------------------------------------------------------------------------
(* LAMDAData::from_reader, step by step *)

EmptyMap == [x \in {} |-> <<>>]

\* The locals of from_reader before their first assignment.
NewFrame ==
    [level_count |-> 0,
     level_data |-> NewLevelData(0),
     transition_count |-> 0,
     radset |-> NewRadSet(0),
     filled |-> 0,
     colli_partner_count |-> 0,
     partner |-> 0,
     partner_name |-> "",
     colli_transitions_count |-> 0,
     colli_transitions_temps |-> <<>>,
     colli_transitions |-> <<>>,
     coll_transitions |-> EmptyMap]

NoData == [levels |-> NewLevelData(0), radset |-> NewRadSet(0),
           collsets |-> EmptyMap, some |-> FALSE]

\* lamda.rs:195-199
LAMDAData(f) == [levels |-> f.level_data, radset |-> f.radset,
                 collsets |-> f.coll_transitions, some |-> TRUE]

\* Bookkeeping common to every read.
Consume(o) ==
    /\ consumed' = consumed + o.used
    /\ ioSeen' = (ioSeen \/ o.dropIo \/ o.item.kind = "io")
    /\ eofIn' = IF o.item.kind = "eof" /\ eofIn = "none" THEN pc ELSE eofIn

\* `return Err(..)`, `?` on an Err, or a panic: the call is over, its
\* locals are dropped and no LAMDAData exists.
Fail(r) ==
    /\ pc' = "done"
    /\ result' = r
    /\ data' = NoData
    /\ frame' = NewFrame

\* lamda.rs:195-199: Ok(Self { .. }) built from the locals f.
ReturnOk(f) ==
    /\ pc' = "done"
    /\ result' = OkResult
    /\ data' = LAMDAData(f)
    /\ frame' = NewFrame

\* Go on at p with the locals f.
Goto(p, f) ==
    /\ pc' = p
    /\ frame' = f
    /\ UNCHANGED <<result, data>>

\* History: the count a count line declares, once it has parsed.
Declare(field, o) ==
    declared' = IF o.item.kind = "line" /\ ParseLineUIntOk(o.item.line)
                  THEN [declared EXCEPT ![field] = ParseUInt(o.item.line[1])]
                  ELSE declared

\* History: the number of lines taken when the level section ended and
\* when the partner count had been read, the number taken when the first
\* partner-id line had been read, the number of partner-id lines read.
NoTrail == [level_end |-> -1, count_at |-> -1, first_id_at |-> -1, ids_read |-> 0]

\* The step that leads to position p has taken its lines: note how many
\* have been taken by now.
Reached(p, field, o) ==
    trail' = IF pc' = p THEN [trail EXCEPT ![field] = consumed + o.used] ELSE trail

\* The line o has been read as a partner-id line.
PartnerIdRead(o) ==
    trail' = IF o.item.kind = "line"
               THEN [trail EXCEPT
                       !.ids_read = @ + 1,
                       !.first_id_at = IF @ = -1 THEN consumed + o.used ELSE @]
               ELSE trail

\* `.ok_or_else(|| ParseError(msg))??` on an item: None gives the
\* ParseError, Some(Err(e)) gives LAMDAError::Io(e) through From<io::Error>.
Unwrapped(o, msg) ==
    CASE o.item.kind = "eof" -> ParseError(msg)
      [] o.item.kind = "io" -> Io
      [] OTHER -> OkResult

\* A line that only has to be there: `lines.nth(1)...??` or `lines.next()...??`.
\* lamda.rs:94-96
ReadMoleculeHeader ==
    /\ pc = "molecule"
    /\ \E o \in NthOutcomes(consumed) :
        /\ Consume(o)
        /\ IF Unwrapped(o, "Missing molecule header") # OkResult
             THEN Fail(Unwrapped(o, "Missing molecule header"))
             ELSE Goto("weight", frame)
    /\ UNCHANGED <<badRecord, lastIdTok, declared, trail, beamVars, ioVars>>

\* lamda.rs:97-99
ReadWeight ==
    /\ pc = "weight"
    /\ \E o \in NthOutcomes(consumed) :
        /\ Consume(o)
        /\ IF Unwrapped(o, "Missing weight") # OkResult
             THEN Fail(Unwrapped(o, "Missing weight"))
             ELSE Goto("level_count", frame)
    /\ UNCHANGED <<badRecord, lastIdTok, declared, trail, beamVars, ioVars>>

\* lamda.rs:101-104
ReadLevelCount ==
    /\ pc = "level_count"
    /\ \E o \in NthOutcomes(consumed) :
        /\ Consume(o)
        /\ Declare("n_lvl", o)
        /\ IF Unwrapped(o, "Missing energy levels count") # OkResult
             THEN Fail(Unwrapped(o, "Missing energy levels count"))
             ELSE IF ~ParseLineUIntOk(o.item.line)
               THEN Fail(ParseInt)
               ELSE Goto("level_header",
                         [frame EXCEPT !.level_count = ParseUInt(o.item.line[1])])
    /\ UNCHANGED <<badRecord, lastIdTok, trail, beamVars, ioVars>>

\* lamda.rs:106-110 and 242-245: the header line, then parse_energy_levels
\* allocates its vectors; with nothing to fill it returns them at once.
ReadLevelHeader ==
    /\ pc = "level_header"
    /\ \E o \in NextOutcomes(consumed) :
        /\ Consume(o)
        /\ IF Unwrapped(o, "Missing energy level header") # OkResult
             THEN Fail(Unwrapped(o, "Missing energy level header"))
             ELSE Goto(IF frame.level_count = 0 THEN "rad_count" ELSE "levels",
                       [frame EXCEPT !.level_data = NewLevelData(frame.level_count),
                                     !.filled = 0])
        /\ Reached("rad_count", "level_end", o)
    /\ UNCHANGED <<badRecord, lastIdTok, declared, beamVars, ioVars>>

\* lamda.rs:212-259: one item drawn through iter.next().  The filter_map
\* drops io errors and lines that start with '!'; the closure parses with
\* expect(); running out of input fails the expect of line 254.
ParseEnergyLevels ==
    /\ pc = "levels"
    /\ \E o \in NextOutcomes(consumed) :
        /\ Consume(o)
        /\ CASE o.item.kind = "eof" ->
                  /\ Fail(Panic("Failed to parse level"))
                  /\ UNCHANGED badRecord
             [] o.item.kind = "io" ->
                  /\ Goto("levels", frame)
                  /\ UNCHANGED badRecord
             [] o.item.kind = "line" /\ StartsWithBang(o.item.line) ->
                  /\ Goto("levels", frame)
                  /\ UNCHANGED badRecord
             [] OTHER ->
                  IF LevelFieldsOk(o.item.line)
                    THEN /\ Goto(IF frame.filled + 1 = frame.level_count
                                   THEN "rad_count" ELSE "levels",
                                 [frame EXCEPT
                                    !.level_data = StoreLevel(frame.level_data,
                                                     frame.filled + 1, o.item.line),
                                    !.filled = frame.filled + 1])
                         /\ UNCHANGED badRecord
                    ELSE /\ Fail(Panic(LevelPanicMsg(o.item.line)))
                         /\ badRecord' = "level"
        /\ Reached("rad_count", "level_end", o)
    /\ UNCHANGED <<lastIdTok, declared, beamVars, ioVars>>

\* lamda.rs:112-115
ReadTransitionCount ==
    /\ pc = "rad_count"
    /\ \E o \in NthOutcomes(consumed) :
        /\ Consume(o)
        /\ Declare("n_rad", o)
        /\ IF Unwrapped(o, "Missing radiative transition count") # OkResult
             THEN Fail(Unwrapped(o, "Missing radiative transition count"))
             ELSE IF ~ParseLineUIntOk(o.item.line)
               THEN Fail(ParseInt)
               ELSE Goto("rad_header",
                         [frame EXCEPT !.transition_count = ParseUInt(o.item.line[1])])
    /\ UNCHANGED <<badRecord, lastIdTok, trail, beamVars, ioVars>>

\* lamda.rs:117-121 and 316-321
ReadTransitionHeader ==
    /\ pc = "rad_header"
    /\ \E o \in NextOutcomes(consumed) :
        /\ Consume(o)
        /\ IF Unwrapped(o, "Missing radiative transition header") # OkResult
             THEN Fail(Unwrapped(o, "Missing radiative transition header"))
             ELSE Goto(IF frame.transition_count = 0 THEN "partner_count" ELSE "rads",
                       [frame EXCEPT !.radset = NewRadSet(frame.transition_count),
                                     !.filled = 0])
    /\ UNCHANGED <<badRecord, lastIdTok, declared, trail, beamVars, ioVars>>

\* lamda.rs:276-339
ParseRadTransitions ==
    /\ pc = "rads"
    /\ \E o \in NextOutcomes(consumed) :
        /\ Consume(o)
        /\ CASE o.item.kind = "eof" ->
                  /\ Fail(Panic("Failed to parse transition"))
                  /\ UNCHANGED badRecord
             [] o.item.kind = "io" ->
                  /\ Goto("rads", frame)
                  /\ UNCHANGED badRecord
             [] o.item.kind = "line" /\ StartsWithBang(o.item.line) ->
                  /\ Goto("rads", frame)
                  /\ UNCHANGED badRecord
             [] OTHER ->
                  IF RadFieldsOk(o.item.line)
                    THEN /\ Goto(IF frame.filled + 1 = frame.transition_count
                                   THEN "partner_count" ELSE "rads",
                                 [frame EXCEPT
                                    !.radset = StoreRad(frame.radset,
                                                 frame.filled + 1, o.item.line),
                                    !.filled = frame.filled + 1])
                         /\ UNCHANGED badRecord
                    ELSE /\ Fail(Panic(RadPanicMsg(o.item.line)))
                         /\ badRecord' = "rad"
    /\ UNCHANGED <<lastIdTok, declared, trail, beamVars, ioVars>>

\* lamda.rs:123-128
ReadPartnerCount ==
    /\ pc = "partner_count"
    /\ \E o \in NthOutcomes(consumed) :
        /\ Consume(o)
        /\ Declare("n_partner", o)
        /\ IF Unwrapped(o, "Missing collisional transition partner count") # OkResult
             THEN Fail(Unwrapped(o, "Missing collisional transition partner count"))
             ELSE IF ~ParseLineUIntOk(o.item.line)
               THEN Fail(ParseInt)
               ELSE Goto("colli_first",
                         [frame EXCEPT !.colli_partner_count = ParseUInt(o.item.line[1]),
                                       !.partner = 0])
        /\ Reached("colli_first", "count_at", o)
    /\ UNCHANGED <<badRecord, lastIdTok, beamVars, ioVars>>

\* lamda.rs:358-364 (then 132-133 and 195-199 when there is no partner):
\* the first statement of parse_colli_transitions takes one more line.
ParseColliFirstLine ==
    /\ pc = "colli_first"
    /\ \E o \in NextOutcomes(consumed) :
        /\ Consume(o)
        /\ IF Unwrapped(o, "Missing collisional transition") # OkResult
             THEN Fail(Unwrapped(o, "Missing collisional transition"))
             ELSE IF frame.colli_partner_count = 0
               THEN ReturnOk(frame)
               ELSE Goto("c1_id", frame)
    /\ UNCHANGED <<badRecord, lastIdTok, declared, trail, beamVars, ioVars>>

----------------------------------------------------------------------------
(* The partner blocks.  parse_colli_transitions (lamda.rs:364-412) and the  *)
(* loop of from_reader (lamda.rs:133-193) run the same five reads.  Each    *)
(* step takes the position it runs at, the one it leads to, and whether it  *)
(* runs in from_reader: the locals parse_colli_transitions assigns          *)
(* (partner_name, colli_transitions_count, colli_transitions_temps) are     *)
(* never read again and are not kept.                                       *)

\* lamda.rs:134-154 / 365-385
PartnerIdStep(here, next, inFromReader) ==
    /\ pc = here
    /\ \E o \in NthOutcomes(consumed) :
        /\ Consume(o)
        /\ IF Unwrapped(o, "Missing partner transition header") # OkResult
             THEN /\ Fail(Unwrapped(o, "Missing partner transition header"))
                  /\ UNCHANGED lastIdTok
             ELSE IF Len(o.item.line) = 0
               THEN /\ Fail(ParseError("Missing partner transition ID"))
                    /\ UNCHANGED lastIdTok
               ELSE /\ lastIdTok' = o.item.line[1]
                    /\ IF PartnerIdOk(o.item.line[1])
                         THEN Goto(next,
                                IF inFromReader
                                  THEN [frame EXCEPT !.partner_name =
                                                       PartnerName(o.item.line[1])]
                                  ELSE frame)
                         ELSE Fail(ParseError("Invalid partner transition ID"))
        /\ PartnerIdRead(o)
    /\ UNCHANGED <<badRecord, declared, beamVars, ioVars>>

\* lamda.rs:155-160 / 386-391
CollCountStep(here, next, inFromReader) ==
    /\ pc = here
    /\ \E o \in NthOutcomes(consumed) :
        /\ Consume(o)
        /\ IF Unwrapped(o, "Missing collisional transition count") # OkResult
             THEN Fail(Unwrapped(o, "Missing collisional transition count"))
             ELSE IF ~ParseLineUIntOk(o.item.line)
               THEN Fail(ParseInt)
               ELSE Goto(next,
                      IF inFromReader
                        THEN [frame EXCEPT !.colli_transitions_count =
                                             ParseUInt(o.item.line[1])]
                        ELSE frame)
    /\ UNCHANGED <<badRecord, lastIdTok, declared, trail, beamVars, ioVars>>

\* lamda.rs:161-166 / 392-397: the temperature count is parsed and dropped.
TempCountStep(here, next) ==
    /\ pc = here
    /\ \E o \in NthOutcomes(consumed) :
        /\ Consume(o)
        /\ IF Unwrapped(o, "Missing collisional transition header") # OkResult
             THEN Fail(Unwrapped(o, "Missing collisional transition header"))
             ELSE IF ~ParseLineUIntOk(o.item.line)
               THEN Fail(ParseInt)
               ELSE Goto(next, frame)
    /\ UNCHANGED <<badRecord, lastIdTok, declared, trail, beamVars, ioVars>>

\* lamda.rs:167-177 / 398-408
TempsStep(here, next, inFromReader) ==
    /\ pc = here
    /\ \E o \in NthOutcomes(consumed) :
        /\ Consume(o)
        /\ IF Unwrapped(o, "Missing collisional transition temperatures") # OkResult
             THEN Fail(Unwrapped(o, "Missing collisional transition temperatures"))
             ELSE IF ~TempsOk(o.item.line)
               THEN Fail(ParseError("invalid float literal"))
               ELSE Goto(next,
                      IF inFromReader
                        THEN [frame EXCEPT !.colli_transitions_temps =
                                             ParseTemps(o.item.line)]
                        ELSE frame)
    /\ UNCHANGED <<badRecord, lastIdTok, declared, trail, beamVars, ioVars>>

ParseColliPartnerId == PartnerIdStep("c1_id", "c1_count", FALSE)
ParseColliCount == CollCountStep("c1_count", "c1_ntemp", FALSE)
ParseColliTempCount == TempCountStep("c1_ntemp", "c1_temps")
ParseColliTemps == TempsStep("c1_temps", "c1_data", FALSE)

\* lamda.rs:409-414: the line before the records ends the block; the
\* records themselves are left unread.  After the last block
\* parse_colli_transitions returns and from_reader starts its own loop.
ParseColliDataLine ==
    /\ pc = "c1_data"
    /\ \E o \in NextOutcomes(consumed) :
        /\ Consume(o)
        /\ IF Unwrapped(o, "Missing collisional transition data") # OkResult
             THEN Fail(Unwrapped(o, "Missing collisional transition data"))
             ELSE IF frame.partner + 1 < frame.colli_partner_count
               THEN Goto("c1_id", [frame EXCEPT !.partner = frame.partner + 1])
               ELSE Goto("c2_id", [frame EXCEPT !.partner = 0])
    /\ UNCHANGED <<badRecord, lastIdTok, declared, trail, beamVars, ioVars>>

FromReaderPartnerId == PartnerIdStep("c2_id", "c2_count", TRUE)
FromReaderCollCount == CollCountStep("c2_count", "c2_ntemp", TRUE)
FromReaderTempCount == TempCountStep("c2_ntemp", "c2_temps")
FromReaderTemps == TempsStep("c2_temps", "c2_data", TRUE)

\* lamda.rs:192-199: insert the partner's transitions; after the last
\* partner from_reader returns Ok.
InsertPartner(transitions) ==
    LET f == [frame EXCEPT
                !.coll_transitions = MapInsert(frame.coll_transitions,
                                               frame.partner_name, transitions),
                !.colli_transitions = <<>>,
                !.partner = frame.partner + 1]
    IN  IF frame.partner + 1 < frame.colli_partner_count
          THEN Goto("c2_id", f)
          ELSE ReturnOk(f)

\* lamda.rs:179-190
FromReaderDataLine ==
    /\ pc = "c2_data"
    /\ \E o \in NextOutcomes(consumed) :
        /\ Consume(o)
        /\ IF Unwrapped(o, "Missing collisional transition data") # OkResult
             THEN Fail(Unwrapped(o, "Missing collisional transition data"))
             ELSE IF frame.colli_transitions_count = 0
               THEN InsertPartner(<<>>)
               ELSE Goto("c2_trans", [frame EXCEPT !.colli_transitions = <<>>])
    /\ UNCHANGED <<badRecord, lastIdTok, declared, trail, beamVars, ioVars>>

\* lamda.rs:182-192: one call of parse_colli_transition; collect() stops
\* at the first Err.
FromReaderColliTransition ==
    /\ pc = "c2_trans"
    /\ \E o \in NextOutcomes(consumed) :
        /\ Consume(o)
        /\ IF Unwrapped(o, "Missing collisional transition record") # OkResult
             THEN Fail(Unwrapped(o, "Missing collisional transition record"))
             ELSE IF ColliRecordError(o.item.line,
                                      frame.colli_transitions_temps) # OkResult
               THEN Fail(ColliRecordError(o.item.line,
                                          frame.colli_transitions_temps))
               ELSE LET t == parse_colli_transition(o.item.line,
                               frame.partner_name, frame.colli_transitions_temps)
                        ts == Append(frame.colli_transitions, t)
                    IN  IF Len(ts) = frame.colli_transitions_count
                          THEN InsertPartner(ts)
                          ELSE Goto("c2_trans",
                                    [frame EXCEPT !.colli_transitions = ts])
    /\ UNCHANGED <<badRecord, lastIdTok, declared, trail, beamVars, ioVars>>

----------------------------------------------------------------------------
(* The reader's specification *)

LamdaInit ==
    /\ pc = "molecule"
    /\ consumed = 0
    /\ frame = NewFrame
    /\ result = NoResult
    /\ data = NoData
    /\ ioSeen = FALSE
    /\ eofIn = "none"
    /\ badRecord = "none"
    /\ lastIdTok = "none"
    /\ declared = [n_lvl |-> -1, n_rad |-> -1, n_partner |-> -1]
    /\ trail = NoTrail

BeamIdle ==
    /\ beams = [self |-> [some |-> FALSE], other |-> [some |-> FALSE]]
    /\ lastCall = [op |-> "none"]

\* skip_line is not called
IoIdle ==
    /\ reader = [lines |-> <<>>, pos |-> 0]
    /\ buf = <<>>
    /\ skipped = [calls |-> 0, errs |-> 0, fault |-> "none", out |-> "none",
                  err |-> "none"]

Init == LamdaInit /\ BeamIdle /\ IoIdle

Next ==
    \/ ReadMoleculeHeader
    \/ ReadWeight
    \/ ReadLevelCount
    \/ ReadLevelHeader
    \/ ParseEnergyLevels
    \/ ReadTransitionCount
    \/ ReadTransitionHeader
    \/ ParseRadTransitions
    \/ ReadPartnerCount
    \/ ParseColliFirstLine
    \/ ParseColliPartnerId
    \/ ParseColliCount
    \/ ParseColliTempCount
    \/ ParseColliTemps
    \/ ParseColliDataLine
    \/ FromReaderPartnerId
    \/ FromReaderCollCount
    \/ FromReaderTempCount
    \/ FromReaderTemps
    \/ FromReaderDataLine
    \/ FromReaderColliTransition

Spec == Init /\ [][Next]_vars

----------------------------------------------------------------------------
(* Properties of the reader, under Spec *)

Done == pc = "done"
DoneOk == pc = "done" /\ result = OkResult

\* C1: whenever from_reader returns Ok, the result holds as many levels as
\* the level-count line declared and as many radiative transitions as the
\* transition-count line declared, in every one of the parallel vectors.
C1_CountsMatchDeclared ==
    DoneOk =>
        /\ data.some
        /\ Len(data.levels.ids) = declared.n_lvl
        /\ Len(data.levels.energies) = declared.n_lvl
        /\ Len(data.levels.weights) = declared.n_lvl
        /\ Len(data.levels.qnums) = declared.n_lvl
        /\ Len(data.radset.ids) = declared.n_rad
        /\ Len(data.radset.ups) = declared.n_rad
        /\ Len(data.radset.lows) = declared.n_rad
        /\ Len(data.radset.einst_as) = declared.n_rad
        /\ Len(data.radset.freqs) = declared.n_rad
        /\ Len(data.radset.energies) = declared.n_rad

\* An Ok result on a file that declares two levels and one transition
C1_TwoLevelsOneTransition ==
    /\ DoneOk
    /\ declared.n_lvl = 2 /\ declared.n_rad = 1
    /\ data.levels.energies = <<"0.0", "3.845">>
    /\ data.radset.freqs = <<"115.27">>

\* C2: when the input ends inside the energy-level section (records are
\* still owed), the call returns a ParseError to its caller: it does not
\* end in a panic and it returns no LAMDAData.
C2_TruncatedLevelsIsParseError ==
    (Done /\ eofIn = "levels") =>
        (result.kind = "ParseError" /\ ~data.some)

\* C3: when a well-formed input declares no collisional partner and ends
\* with the partner-count line, the call returns Ok, the collisional sets
\* are empty, and levels and radiative transitions are those of the file.
C3_NoPartnerFileParses ==
    (Done /\ eofIn = "colli_first" /\ declared.n_partner = 0
       /\ ~ioSeen /\ badRecord = "none") =>
        /\ result = OkResult
        /\ data.some
        /\ data.collsets = EmptyMap
        /\ Len(data.levels.ids) = declared.n_lvl
        /\ Len(data.radset.ids) = declared.n_rad

\* The partner table as the format gives it
C4_Table ==
    [tok \in {"1", "2", "3", "4", "5", "6", "7"} |->
       CASE tok = "1" -> "H2" [] tok = "2" -> "p-H2" [] tok = "3" -> "o-H2"
         [] tok = "4" -> "e" [] tok = "5" -> "H" [] tok = "6" -> "He"
         [] tok = "7" -> "H+"]

\* C4: the first token of a partner-id line is mapped 1 -> H2, 2 -> p-H2,
\* 3 -> o-H2, 4 -> e, 5 -> H, 6 -> He, 7 -> H+; on any other first token the
\* call is over with the invalid-partner-id ParseError and no LAMDAData,
\* and the keys of a returned map are names of the table.
C4_PartnerIdTable ==
    /\ pc = "c2_count" =>
          (lastIdTok \in DOMAIN C4_Table
             /\ frame.partner_name = C4_Table[lastIdTok])
    /\ (lastIdTok # "none" /\ lastIdTok \notin DOMAIN C4_Table) =>
          /\ Done
          /\ result = ParseError("Invalid partner transition ID")
          /\ ~data.some
    /\ DoneOk =>
          \A k \in DOMAIN data.collsets :
              \E tok \in DOMAIN C4_Table : k = C4_Table[tok]

\* A partner-id line that starts with "8" has ended the call
C4_InvalidIdMet ==
    /\ Done
    /\ lastIdTok = "8"
    /\ result = ParseError("Invalid partner transition ID")

\* C5: a level or radiative record with a missing or malformed field ends
\* the call with a typed error (ParseInt, ParseFloat or ParseError) and no
\* LAMDAData; the call does not panic.
C5_BadRecordIsTypedError ==
    (Done /\ badRecord # "none") =>
        (result.kind \in {"ParseInt", "ParseFloat", "ParseError"} /\ ~data.some)

\* C6: once the reader has yielded an io::Error on a line the parser took,
\* skipped lines included, the call is over and has returned
\* LAMDAError::Io; it does not go on to later lines.
C6_IoErrorIsReturned ==
    ioSeen => (Done /\ result = Io)

C16_FirstIdIsSecondAfterCount ==
    trail.first_id_at # -1 => trail.first_id_at = trail.count_at + 2

\* C17: during one parse exactly N_partner partner blocks are read: no
\* more partner-id lines are read than the count line declared, and a parse
\* that succeeds has read exactly that many.
C17_OneBlockPerPartner ==
    /\ trail.count_at # -1 => trail.ids_read <= declared.n_partner
    /\ DoneOk => trail.ids_read = declared.n_partner

\* C18: after the level header exactly N_lvl lines are taken for the level
\* section: a parse that succeeds had taken exactly 7 + N_lvl lines when
\* the level section ended.
C18_LevelSectionLines ==
    DoneOk => trail.level_end = 7 + declared.n_lvl

\* C19: in every result of a successful parse the i-th level has id i.
C19_LevelIdIsPosition ==
    DoneOk => \A i \in 1..Len(data.levels.ids) : data.levels.ids[i] = i

----------------------------------------------------------------------------
(* Floating point.                                                          *)
(*                                                                          *)
(* beam.rs computes in f64.  The model keeps what decides the claims about  *)
(* it: every operation rounds its exact result to a fixed number of         *)
(* significant bits (round to nearest, ties to even), and the root of a     *)
(* negative number is NaN, which compares false with everything.  A value   *)
(* is an integer count of 2^-FracBits; Mantissa is the number of            *)
(* significant bits (53 in f64).                                            *)

\* Fraction bits of the grid the values live on.
FracBits == 6
\* Significant bits of a value.
Mantissa == 5

One == 2 ^ FracBits
NaN == -(2 ^ 30)
IsNaN(x) == x = NaN

RECURSIVE BitLen(_)
BitLen(n) == IF n <= 0 THEN 0 ELSE 1 + BitLen(n \div 2)

Abs(x) == IF x < 0 THEN -x ELSE x
Sign(x) == IF x < 0 THEN -1 ELSE 1

\* n / d to the nearest integer, n >= 0
DivRound(n, d) == (2 * n + d) \div (2 * d)

\* The gap between the values next to n
Ulp(n) == IF BitLen(n) > Mantissa THEN 2 ^ (BitLen(n) - Mantissa) ELSE 1

\* n to the nearest multiple of u, ties to the even one
RoundTo(n, u) ==
    ((n \div u)
       + (IF 2 * (n % u) > u \/ (2 * (n % u) = u /\ (n \div u) % 2 = 1)
            THEN 1 ELSE 0)) * u

\* Rounding to Mantissa significant bits
RoundPos(n) == RoundTo(n, Ulp(n))
Round(n) == Sign(n) * RoundPos(Abs(n))

FAdd(a, b) == IF IsNaN(a) \/ IsNaN(b) THEN NaN ELSE Round(a + b)
FSub(a, b) == IF IsNaN(a) \/ IsNaN(b) THEN NaN ELSE Round(a - b)
FMul(a, b) ==
    IF IsNaN(a) \/ IsNaN(b) THEN NaN
    ELSE Sign(a) * Sign(b) * DivRound(RoundPos(Abs(a) * Abs(b)), One)
FDiv(a, b) ==
    IF IsNaN(a) \/ IsNaN(b) \/ b = 0 THEN NaN
    ELSE Sign(a) * Sign(b) * RoundPos(DivRound(Abs(a) * One, Abs(b)))
FAbs(a) == IF IsNaN(a) THEN NaN ELSE Abs(a)
FNeg(a) == IF IsNaN(a) THEN NaN ELSE -a

\* The root of n rounded down, r being twice the root of n \div 4 rounded down
StepRoot(n, r) == IF (r + 1) * (r + 1) <= n THEN r + 1 ELSE r

RECURSIVE ISqrt(_)
ISqrt(n) == IF n < 2 THEN n ELSE StepRoot(n, 2 * ISqrt(n \div 4))

\* The integer nearest to the root of n, r being the root rounded down
NearestRoot(n, r) == IF n - r * r > r THEN r + 1 ELSE r

\* f64::sqrt: NaN below zero
FSqrt(a) ==
    IF IsNaN(a) \/ a < 0 THEN NaN
    ELSE Round(NearestRoot(a * One, ISqrt(a * One)))

\* Comparisons of f64: false as soon as a side is NaN
FLt(a, b) == ~IsNaN(a) /\ ~IsNaN(b) /\ a < b
FGt(a, b) == FLt(b, a)
FLe(a, b) == ~IsNaN(a) /\ ~IsNaN(b) /\ a <= b

\* A whole number, and a number given in thousandths, as values
Num(n) == n * One
Milli(n) == Round(DivRound(n * One, 1000))

\* f64::EPSILON, the gap after 1.0
EPSILON == One \div (2 ^ (Mantissa - 1))

\* `a < b + tol` for a tolerance tol > 0 below the grid (beam.rs:218, 243:
\* epsilon / 3600^2, 1e-7 arcsec): the sum is b again unless b is zero.
FLtPlusTiny(a, b) ==
    ~IsNaN(a) /\ ~IsNaN(b) /\ (IF b = 0 THEN a <= 0 ELSE a < b)

----------------------------------------------------------------------------
(* Beams (beam.rs).  Axes are values in one angular unit, areas values in   *)
(* that unit squared; position angles are whole degrees.  Sine, cosine and  *)
(* atan2 are followed on the multiples of 45 degrees.                       *)

\* The largest axis, in whole units, of a Beam that is used in a further call.
MaxAxis == 6
\* The longest chain of convolve and deconvolve calls on one receiver.
MaxOps == 1

\* sqrt(1/2), as f64 has it
SinCos45 == FSqrt(One \div 2)

\* Angle::cos and Angle::sin
Cos(deg) ==
    CASE deg % 360 = 0 -> One
      [] deg % 360 = 180 -> -One
      [] deg % 360 \in {45, 315} -> SinCos45
      [] deg % 360 \in {135, 225} -> -SinCos45
      [] deg % 360 \in {90, 270} -> 0
Sin(deg) == Cos(deg - 90)

\* A position angle the model does not follow further
OffGrid == 1
OnGrid(deg) == deg % 45 = 0

\* f64::atan2(y, x), in degrees
Atan2(y, x) ==
    CASE y = 0 /\ x >= 0 -> 0
      [] y = 0 /\ x < 0 -> 180
      [] y > 0 /\ x = 0 -> 90
      [] y < 0 /\ x = 0 -> -90
      [] OTHER -> OffGrid

\* 0.5 * Angle
HalfAngle(deg) == IF deg % 90 = 0 THEN deg \div 2 ELSE OffGrid

\* Option<T>
None == [some |-> FALSE, v |-> 0]
Some(x) == [some |-> TRUE, v |-> x]

\* constants.rs:4  FWHM_TO_AREA = 2 pi / (8 ln 2)
FWHM_TO_AREA == Milli(1133)
\* constants.rs:8
SIGMA_TO_FWHM == Milli(2355)
\* std::f64::consts::PI
PI == Milli(3142)

\* beam.rs:101-103
to_area(major, minor) == FMul(FMul(major, minor), FWHM_TO_AREA)

NoBeam == [some |-> FALSE, major |-> 0, minor |-> 0, pa |-> 0, area |-> 0]
MkBeam(major, minor, pa) ==
    [some |-> TRUE, major |-> major, minor |-> minor, pa |-> pa,
     area |-> to_area(major, minor)]

\* sigma taken for the FWHM: the factor SIGMA_TO_FWHM left out
SigmaOfArea(area) == FSqrt(FDiv(area, FMul(Num(2), PI)))

\* beam.rs:71-73: sqrt(area / 2 pi) * SIGMA_TO_FWHM
FwhmOfArea(area) ==
    FMul(FSqrt(FDiv(area, FMul(Num(2), PI))), SIGMA_TO_FWHM)

\* The check of beam.rs:86 written with >=
NewFromAxesGe(major_val, minor_val, pa_val) ==
    IF FLe(major_val, minor_val)
      THEN [out |-> "MinorGreaterThanMajor", beam |-> NoBeam]
      ELSE [out |-> "Ok", beam |-> MkBeam(major_val, minor_val, pa_val)]

\* beam.rs:86-98: the axes are given
NewFromAxes(major_val, minor_val, pa_val) ==
    IF FGt(minor_val, major_val)
      THEN [out |-> "MinorGreaterThanMajor", beam |-> NoBeam]
      ELSE [out |-> "Ok", beam |-> MkBeam(major_val, minor_val, pa_val)]

\* beam.rs:61-99  Beam::new: [out, beam]
BeamNew(major, minor, pa, area) ==
    IF area.some
      THEN IF major.some \/ minor.some \/ pa.some
             THEN [out |-> "ExclusiveParameterConflict", beam |-> NoBeam]
             ELSE [out |-> "Ok",
                   beam |-> MkBeam(FwhmOfArea(area.v), FwhmOfArea(area.v), 0)]
      ELSE IF ~major.some
             THEN [out |-> "MissingParameter", beam |-> NoBeam]
             ELSE NewFromAxes(major.v,
                              IF minor.some THEN minor.v ELSE major.v,
                              IF pa.some THEN pa.v ELSE 0)

\* Result::unwrap on Beam::new (beam.rs:107, 112): a panic on Err
Unwrap(r) == IF r.out = "Ok" THEN r ELSE [out |-> "Panic", beam |-> NoBeam]

\* powi(P2)
Sq(x) == FMul(x, x)

\* beam.rs:158-161
ConvAlpha(beam, other) ==
    FAdd(FAdd(FAdd(Sq(FMul(beam.major, Cos(beam.pa))),
                   Sq(FMul(beam.minor, Sin(beam.pa)))),
              Sq(FMul(other.major, Cos(other.pa)))),
         Sq(FMul(other.minor, Sin(other.pa))))

\* beam.rs:164-167
ConvBeta(beam, other) ==
    FAdd(FAdd(FAdd(Sq(FMul(beam.major, Sin(beam.pa))),
                   Sq(FMul(beam.minor, Cos(beam.pa)))),
              Sq(FMul(other.major, Sin(other.pa)))),
         Sq(FMul(other.minor, Cos(other.pa))))

\* (minor^2 - major^2) * sin(pa) * cos(pa)
CrossTerm(b) ==
    FMul(FMul(FSub(Sq(b.minor), Sq(b.major)), Sin(b.pa)), Cos(b.pa))

\* beam.rs:170-176
ConvGamma(beam, other) ==
    FMul(Num(2), FAdd(CrossTerm(beam), CrossTerm(other)))

\* beam.rs:179 and 215
TOf(alpha, beta, gamma) == FSqrt(FAdd(Sq(FSub(alpha, beta)), Sq(gamma)))

\* beam.rs:184-196 and 238-250: the position angle of the result
NewPa(alpha, beta, gamma) ==
    IF FSqrt(FAdd(FAbs(gamma), FAbs(FSub(alpha, beta)))) = 0
      THEN 0
      ELSE HalfAngle(Atan2(FNeg(gamma), FSub(alpha, beta)))

\* beam.rs:181-182 and 235-236: the axes of the result
NewMajor(s, t) == FSqrt(FMul(One \div 2, FAdd(s, t)))
NewMinor(s, t) == FSqrt(FMul(One \div 2, FSub(s, t)))

\* beam.rs:178-198: from alpha, beta and gamma on
ConvolveFrom(alpha, beta, gamma, s, t) ==
    [major |-> NewMajor(s, t), minor |-> NewMinor(s, t),
     pa |-> NewPa(alpha, beta, gamma)]
ConvolveOf(alpha, beta, gamma) ==
    ConvolveFrom(alpha, beta, gamma, FAdd(alpha, beta), TOf(alpha, beta, gamma))

\* beam.rs:156-199  fn convolve: (new_major, new_minor, new_pa)
convolve(beam, other) ==
    ConvolveOf(ConvAlpha(beam, other), ConvBeta(beam, other),
               ConvGamma(beam, other))

\* beam.rs:202-204
DeconvAlpha(b1, b2) ==
    FSub(FSub(FAdd(Sq(FMul(b1.major, Cos(b1.pa))),
                   Sq(FMul(b1.minor, Sin(b1.pa)))),
              Sq(FMul(b2.major, Cos(b2.pa)))),
         Sq(FMul(b2.minor, Sin(b2.pa))))

\* beam.rs:206-208
DeconvBeta(b1, b2) ==
    FSub(FSub(FAdd(Sq(FMul(b1.major, Sin(b1.pa))),
                   Sq(FMul(b1.minor, Cos(b1.pa)))),
              Sq(FMul(b2.major, Sin(b2.pa)))),
         Sq(FMul(b2.minor, Cos(b2.pa))))

\* beam.rs:210-212
DeconvGamma(b1, b2) ==
    FMul(Num(2), FSub(CrossTerm(b1), CrossTerm(b2)))

\* The guard with the signs of alpha and beta turned round
DegenerateNonNegative(alpha, beta, s, t) ==
    \/ FLe(0, FAdd(alpha, EPSILON))
    \/ FLe(0, FAdd(beta, EPSILON))
    \/ FLtPlusTiny(s, t)

\* beam.rs:217-228: the guard, atol being f64::EPSILON
Degenerate(alpha, beta, s, t) ==
    \/ FLt(FAdd(alpha, EPSILON), 0)
    \/ FLt(FAdd(beta, EPSILON), 0)
    \/ FLtPlusTiny(s, t)

\* beam.rs:214-256: from alpha, beta and gamma on
DeconvolveFrom(alpha, beta, gamma, s, t) ==
    IF Degenerate(alpha, beta, s, t)
      THEN [major |-> 0, minor |-> 0, pa |-> 0]
      ELSE [major |-> FAdd(NewMajor(s, t), EPSILON),
            minor |-> FAdd(NewMinor(s, t), EPSILON),
            pa |-> NewPa(alpha, beta, gamma)]
DeconvolveOf(alpha, beta, gamma) ==
    DeconvolveFrom(alpha, beta, gamma, FAdd(alpha, beta),
                   TOf(alpha, beta, gamma))

\* beam.rs:201-257  fn deconvolve: (new_major, new_minor, new_pa)
deconvolve(b1, b2) ==
    DeconvolveOf(DeconvAlpha(b1, b2), DeconvBeta(b1, b2), DeconvGamma(b1, b2))

\* beam.rs:107 and 112: Beam::new(Some(major), Some(minor), Some(pa), None).unwrap()
NewUnwrapped(n) ==
    Unwrap(BeamNew(Some(n.major), Some(n.minor), Some(n.pa), None))

\* beam.rs:105-108  Beam::convolve
BeamConvolve(self, other) == NewUnwrapped(convolve(self, other))

\* beam.rs:110-113  Beam::deconvolve
BeamDeconvolve(self, other) == NewUnwrapped(deconvolve(self, other))

\* The tolerances of is_circular (rtol = 1e-6) and of eq (atol_deg = 1e-10):
\* far above the rounding of one operation, far below the differences
\* between the axes that are given to Beam::new.
RTol == One \div 8
ATol == 4 * EPSILON

\* beam.rs:115-120  Beam::is_circular(None); 0 / 0 is NaN and compares false
is_circular(b) ==
    FLe(FDiv(FSub(b.major, b.minor), b.major), RTol)

\* f64 % 180.0: the remainder keeps the sign of the dividend
Rem180(deg) == IF deg >= 0 THEN deg % 180 ELSE -((-deg) % 180)

\* beam.rs:139-154  PartialEq::eq; position angles are whole degrees, so
\* their difference is below atol_deg only when it is 0
eq(self, other) ==
    /\ FLt(FAbs(FSub(self.major, other.major)), ATol)
    /\ FLt(FAbs(FSub(self.minor, other.minor)), ATol)
    /\ (is_circular(self) \/ Rem180(self.pa) - Rem180(other.pa) = 0)

----------------------------------------------------------------------------
(* Sequences of Beam operations.  `beams` holds two Beam values, the        *)
(* receiver and the argument of the next call; a call puts its result in    *)
(* either place.  A result whose position angle is off the multiples of 45  *)
(* degrees, or whose axes are NaN, is recorded in lastCall and not used as  *)
(* an operand.                                                              *)

AxisInputs == {Num(0), Num(2), Num(3)}
PaInputs == {-45, 0, 45, 90, 180}
AreaInputs == {Num(0), Num(20), Num(50)}

Opt(S) == {None} \cup {Some(x) : x \in S}

Slots == {"self", "other"}

LamdaIdle ==
    /\ pc = "idle"
    /\ consumed = 0
    /\ frame = NewFrame
    /\ result = NoResult
    /\ data = NoData
    /\ ioSeen = FALSE
    /\ eofIn = "none"
    /\ badRecord = "none"
    /\ lastIdTok = "none"
    /\ declared = [n_lvl |-> -1, n_rad |-> -1, n_partner |-> -1]
    /\ trail = NoTrail

BeamInit ==
    /\ LamdaIdle
    /\ IoIdle
    /\ beams = [self |-> NoBeam, other |-> NoBeam, ops |-> 0]
    /\ lastCall = [op |-> "none", same |-> FALSE, out |-> "none", beam |-> NoBeam]

\* The arguments of the calls of Beam::new: the three of an ellipse, or an
\* area alone
BeamArgs ==
    [major : {Some(x) : x \in AxisInputs}, minor : {Some(x) : x \in AxisInputs},
     pa : {Some(x) : x \in PaInputs}, area : {None}]
      \cup [major : {None}, minor : {None}, pa : {None},
            area : {Some(x) : x \in AreaInputs}]

Usable(b) ==
    /\ ~IsNaN(b.major) /\ ~IsNaN(b.minor)
    /\ b.major <= Num(MaxAxis)
    /\ OnGrid(b.pa)

\* A call of Beam::new by the user; the Beam becomes the receiver or the
\* argument of the calls that follow
NewBeamReturned(r, slot) ==
    /\ lastCall' = [op |-> "new", same |-> FALSE, out |-> r.out, beam |-> r.beam]
    /\ beams' = IF r.out = "Ok"
                  THEN [beams EXCEPT ![slot] = r.beam,
                                     !.ops = IF slot = "self" THEN 0 ELSE @]
                  ELSE beams

NewBeam ==
    /\ \E a \in BeamArgs, slot \in Slots :
          NewBeamReturned(BeamNew(a.major, a.minor, a.pa, a.area), slot)
    /\ UNCHANGED <<lamdaVars, ioVars>>

\* A call on the receiver returned r; a Beam becomes the receiver of the
\* calls that follow
Returned(op, r) ==
    /\ lastCall' = [op |-> op, same |-> beams.self = beams.other,
                    out |-> r.out, beam |-> r.beam]
    /\ beams' = IF r.out = "Ok" /\ Usable(r.beam)
                  THEN [beams EXCEPT !.self = r.beam, !.ops = @ + 1]
                  ELSE beams

\* self.convolve(other), also written self * other (beam.rs:123-129)
Convolve ==
    /\ beams.self.some /\ beams.other.some
    /\ beams.ops < MaxOps
    /\ Returned("convolve", BeamConvolve(beams.self, beams.other))
    /\ UNCHANGED <<lamdaVars, ioVars>>

\* self.deconvolve(other), also written self / other (beam.rs:131-137)
Deconvolve ==
    /\ beams.self.some /\ beams.other.some
    /\ beams.ops < MaxOps
    /\ Returned("deconvolve", BeamDeconvolve(beams.self, beams.other))
    /\ UNCHANGED <<lamdaVars, ioVars>>

BeamNext == NewBeam \/ Convolve \/ Deconvolve

BeamSpec == BeamInit /\ [][BeamNext]_vars

----------------------------------------------------------------------------
(* Beam::new on its own: the arguments are drawn first, then the call runs. *)

\* The areas of the circular beams of axis M: M^2 * FWHM_TO_AREA, as to_area
\* has it, and M^2 * pi
GaussianAreas == {to_area(M, M) : M \in AxisInputs}
DiscAreas == {FMul(Sq(M), PI) : M \in AxisInputs}

NewArgs ==
    [major : Opt(AxisInputs), minor : Opt(AxisInputs), pa : Opt(PaInputs),
     area : Opt(AreaInputs \cup GaussianAreas \cup DiscAreas)]

NewInit ==
    /\ LamdaIdle
    /\ IoIdle
    /\ beams = [self |-> NoBeam, other |-> NoBeam, ops |-> 0]
    /\ \E a \in NewArgs :
         lastCall = [op |-> "call_new", args |-> a, out |-> "pending",
                     beam |-> NoBeam]

NewReturned(a, r) ==
    /\ lastCall' = [op |-> "new", args |-> a, out |-> r.out, beam |-> r.beam]
    /\ beams' = IF r.out = "Ok" THEN [beams EXCEPT !.self = r.beam] ELSE beams

CallNew ==
    /\ lastCall.op = "call_new"
    /\ NewReturned(lastCall.args,
                   BeamNew(lastCall.args.major, lastCall.args.minor,
                           lastCall.args.pa, lastCall.args.area))
    /\ UNCHANGED <<lamdaVars, ioVars>>

NewNext == CallNew

NewSpec == NewInit /\ [][NewNext]_vars

----------------------------------------------------------------------------
(* Beam equality on its own: two Beams are built by Beam::new, then         *)
(* self == other is evaluated.  The axes include two that lie within atol   *)
(* of each other on either side of the rtol of is_circular, and the         *)
(* position angles include a negative one and its equivalent 180 degrees on. *)

EqAxisInputs == {Num(0), Milli(1688), Milli(1750), Num(2), Num(3)}
EqPaInputs == {-45, 0, 45, 135, 180}

\* The Beams that Beam::new returns for three arguments drawn from these
EqOperands ==
    {b \in {BeamNew(Some(M), Some(m), Some(p), None).beam :
               M \in EqAxisInputs, m \in EqAxisInputs, p \in EqPaInputs} : b.some}

EqInit ==
    /\ LamdaIdle
    /\ IoIdle
    /\ \E a \in EqOperands, b \in EqOperands :
         beams = [self |-> a, other |-> b, ops |-> 0]
    /\ lastCall = [op |-> "call_eq", out |-> FALSE]

\* self == other
CallEq ==
    /\ lastCall.op = "call_eq"
    /\ lastCall' = [op |-> "eq", out |-> eq(beams.self, beams.other)]
    /\ UNCHANGED <<beams, lamdaVars, ioVars>>

EqSpec == EqInit /\ [][CallEq]_vars

----------------------------------------------------------------------------
(* skip_line (src/src/io.rs).  The reader holds a sequence of lines, each   *)
(* with its line end, and the number of them already read; a String is the  *)
(* sequence of the lines it holds.  Each call draws what the underlying     *)
(* read does: it delivers, or it fails with an io::Error before any byte    *)
(* of the line is taken.                                                    *)

\* The longest source, in lines, and the number of calls of skip_line.
MaxSource == 3
MaxCalls == 4

SkipLineSet == {"! LABEL", "1", ""}
IoErrors == {"TimedOut", "BrokenPipe"}

\* The String keeps what it held
ClearKept(b) == b

\* io.rs:5  buf.clear()
Clear(b) == <<>>

\* io.rs:6  reader.read_line(buf): Err(e) when the underlying read fails
\* with e; else the next line is appended to buf and Ok(n) returned, Ok(0)
\* with nothing appended at the end of the source.
read_line(r, b, fault) ==
    IF fault # "none"
      THEN [out |-> "Err", n |-> 0, err |-> fault, reader |-> r, buf |-> b]
      ELSE IF r.pos < Len(r.lines)
        THEN [out |-> "Ok", n |-> 1, err |-> "none",
              reader |-> [r EXCEPT !.pos = @ + 1],
              buf |-> Append(b, r.lines[r.pos + 1])]
        ELSE [out |-> "Ok", n |-> 0, err |-> "none", reader |-> r, buf |-> b]

\* `?` on the Result of read_line: Err(e) returns Err(From::from(e)), which
\* is e itself for io::Error; Ok(n) drops n.
Question(x) == [out |-> x.out, err |-> x.err, reader |-> x.reader, buf |-> x.buf]

\* io.rs:4-8  skip_line
skip_line(r, b, fault) == Question(read_line(r, Clear(b), fault))

SkipInit ==
    /\ LamdaIdle
    /\ BeamIdle
    /\ \E n \in 0..MaxSource :
         \E ls \in [1..n -> SkipLineSet] : reader = [lines |-> ls, pos |-> 0]
    /\ buf \in {<<>>, <<"old">>}
    /\ skipped = [calls |-> 0, errs |-> 0, fault |-> "none", out |-> "none",
                  err |-> "none"]

SkipReturned(fault, x) ==
    /\ reader' = x.reader
    /\ buf' = x.buf
    /\ skipped' = [calls |-> skipped.calls + 1,
                   errs |-> skipped.errs + (IF x.out = "Err" THEN 1 ELSE 0),
                   fault |-> fault, out |-> x.out, err |-> x.err]

\* skip_line(&mut reader, &mut buf)
SkipLine ==
    /\ skipped.calls < MaxCalls
    /\ \E fault \in {"none"} \cup IoErrors :
         SkipReturned(fault, skip_line(reader, buf, fault))
    /\ UNCHANGED <<lamdaVars, beamVars>>

SkipSpec == SkipInit /\ [][SkipLine]_vars

----------------------------------------------------------------------------
(* Properties of Beam *)

\* C8: Beam::new follows its decision table: an area together with any of
\* major, minor, pa is ExclusiveParameterConflict; no area and no major is
\* MissingParameter whatever else is given; no area, a major and a larger
\* minor is MinorGreaterThanMajor; everything else is Ok, a missing minor
\* being the major and a missing pa being 0.
C8_NewDecisionTable ==
    lastCall.op = "new" =>
        /\ lastCall.out =
             CASE lastCall.args.area.some
                    /\ (lastCall.args.major.some \/ lastCall.args.minor.some
                          \/ lastCall.args.pa.some) ->
                      "ExclusiveParameterConflict"
               [] ~lastCall.args.area.some /\ ~lastCall.args.major.some ->
                      "MissingParameter"
               [] ~lastCall.args.area.some /\ lastCall.args.major.some
                    /\ lastCall.args.minor.some
                    /\ lastCall.args.minor.v > lastCall.args.major.v ->
                      "MinorGreaterThanMajor"
               [] OTHER -> "Ok"
        /\ (lastCall.out = "Ok" /\ ~lastCall.args.area.some) =>
              /\ lastCall.beam.major = lastCall.args.major.v
              /\ lastCall.beam.minor =
                   (IF lastCall.args.minor.some THEN lastCall.args.minor.v
                                                ELSE lastCall.args.major.v)
              /\ lastCall.beam.pa =
                   (IF lastCall.args.pa.some THEN lastCall.args.pa.v ELSE 0)
        /\ lastCall.out = "Ok" <=> lastCall.beam.some

\* Beam::new has returned Ok on a major alone, minor and pa defaulted
C8_OnlyMajorGiven ==
    /\ lastCall.op = "new"
    /\ lastCall.out = "Ok"
    /\ lastCall.args.major = Some(Num(3))
    /\ ~lastCall.args.minor.some /\ ~lastCall.args.pa.some
    /\ lastCall.beam.minor = Num(3) /\ lastCall.beam.pa = 0

\* C9: every Beam that new, convolve or deconvolve returns has
\* minor <= major, and convolve and deconvolve always return a Beam: the
\* unwrap of Beam::new inside them does not panic.
C9_MinorAtMostMajor ==
    /\ lastCall.out # "Panic"
    /\ (lastCall.op \in {"new", "convolve", "deconvolve"} /\ lastCall.out = "Ok")
          => FLe(lastCall.beam.minor, lastCall.beam.major)

\* C10: deconvolving a Beam from itself returns the zero beam (major 0,
\* minor 0, position angle 0) as a value.
C10_SelfDeconvolveIsZero ==
    (lastCall.op = "deconvolve" /\ lastCall.same) =>
        /\ lastCall.out = "Ok"
        /\ lastCall.beam.major = 0
        /\ lastCall.beam.minor = 0
        /\ lastCall.beam.pa = 0

C12_ConvolveCommutes ==
    [][lastCall'.op = "convolve" =>
         eq(BeamConvolve(beams.self, beams.other).beam,
            BeamConvolve(beams.other, beams.self).beam)]_vars

\* C13, as stated: for M > 0 the beam built from area = M^2 * pi has
\* the major axis of the beam built from (major = M, minor = M, pa = 0),
\* within the relative tolerance.
C13_DiscAreaRoundTrip ==
    (lastCall.op = "new" /\ lastCall.out = "Ok" /\ lastCall.args.area.some) =>
        \A M \in AxisInputs :
            (M > 0 /\ lastCall.args.area.v = FMul(Sq(M), PI)) =>
                FLe(FAbs(FSub(lastCall.beam.major,
                              BeamNew(Some(M), Some(M), Some(0), None).beam.major)),
                    FMul(RTol, M))

\* C13, amended: for M > 0 the beam built from area = M^2 * FWHM_TO_AREA,
\* the area to_area gives the beam (major = M, minor = M, pa = 0), has the
\* major axis of that beam, within the relative tolerance.
C13_GaussianAreaRoundTrip ==
    (lastCall.op = "new" /\ lastCall.out = "Ok" /\ lastCall.args.area.some) =>
        \A M \in AxisInputs :
            (M > 0 /\ lastCall.args.area.v
                        = BeamNew(Some(M), Some(M), Some(0), None).beam.area) =>
                /\ FLe(FAbs(FSub(lastCall.beam.major,
                                 BeamNew(Some(M), Some(M), Some(0), None).beam.major)),
                       FMul(RTol, M))
                /\ lastCall.beam.minor = lastCall.beam.major
                /\ lastCall.beam.pa = 0

\* Beam::new has built a beam from the area of the circular beam of axis 3
C13_BuiltFromAreaOfThree ==
    /\ lastCall.op = "new"
    /\ lastCall.out = "Ok"
    /\ lastCall.args.area = Some(to_area(Num(3), Num(3)))
    /\ lastCall.beam.major > 0

----------------------------------------------------------------------------
(* Properties of Beam equality, under EqSpec *)

SameAxes(a, b) == a.major = b.major /\ a.minor = b.minor

\* C14: two non-circular beams with identical major and minor axes whose
\* position angles differ by an integer multiple of 180 degrees, a negative
\* angle and its positive equivalent included, compare equal.
C14_PaModulo180 ==
    (/\ lastCall.op = "eq"
     /\ ~is_circular(beams.self) /\ ~is_circular(beams.other)
     /\ SameAxes(beams.self, beams.other)
     /\ (beams.self.pa - beams.other.pa) % 180 = 0)
        => lastCall.out

\* C15: if either of the two beams is circular the position angle is
\* ignored: a.eq(b) is the comparison of the major and minor axes alone,
\* whichever of the two is the circular one, and a.eq(b) and b.eq(a) agree.
C15_CircularIgnoresPa ==
    (/\ lastCall.op = "eq"
     /\ (is_circular(beams.self) \/ is_circular(beams.other)))
        => /\ lastCall.out
                = (/\ FLt(FAbs(FSub(beams.self.major, beams.other.major)), ATol)
                   /\ FLt(FAbs(FSub(beams.self.minor, beams.other.minor)), ATol))
           /\ lastCall.out = eq(beams.other, beams.self)

----------------------------------------------------------------------------
(* Properties of skip_line, under SkipSpec *)

\* C20: each successful call of skip_line discards exactly one line: after
\* k calls, none of which failed, on a source of at least k lines the reader
\* is at the start of line k + 1; buf holds the line the last call consumed
\* and nothing else; and a call whose underlying read fails returns that
\* error.
C20_SkipLineDiscardsOneLine ==
    /\ (skipped.errs = 0 /\ skipped.calls <= Len(reader.lines))
          => reader.pos = skipped.calls
    /\ (skipped.out = "Ok" /\ skipped.calls <= Len(reader.lines) /\ skipped.errs = 0)
          => buf = <<reader.lines[reader.pos]>>
    /\ (skipped.calls > 0 /\ skipped.fault # "none")
          => (skipped.out = "Err" /\ skipped.err = skipped.fault)
    /\ (skipped.calls > 0 /\ skipped.fault = "none") => skipped.out = "Ok"

\* Two calls have succeeded on a String that held something before the
\* first: the reader is past two lines and buf is the second of them
C20_TwoLinesSkipped ==
    /\ skipped.calls = 2
    /\ skipped.errs = 0
    /\ skipped.out = "Ok"
    /\ reader.pos = 2
    /\ reader.lines[1] # reader.lines[2]
    /\ buf = <<reader.lines[2]>>

====
